---- MODULE Spec2Model ----
(***************************************************************************)
(* Model of the "My Land" crop-yield dashboard (src/app.py,                *)
(* src/utils/model.py, src/states_data.py).                                *)
(*                                                                         *)
(* Four specifications share the module:                                   *)
(*   SpecLookup   - get_historical_prediction applied to every             *)
(*                  (state, crop) pair, known or not;                      *)
(*   Spec         - the Streamlit page: one action per script run of       *)
(*                  main(), with the cached model and the session state;   *)
(*   SpecEstimate - preprocess_inputs + predict_yield called directly on   *)
(*                  inputs inside and outside the declared domains;        *)
(*   SpecDisplay  - the achievement level and the action items that        *)
(*                  display_results derives from the two yields.           *)
(*                                                                         *)
(* Python dicts are functions whose DOMAIN is the key set; floats that the *)
(* code only compares or stores are scaled to integers (soil pH x 10,      *)
(* reliability 85.0 -> 85).                                                *)
(***************************************************************************)
EXTENDS Integers, Sequences, FiniteSets, TLC

VARIABLES
    \* ---- SpecLookup: one call of get_historical_prediction
    lk_state,       \* argument state
    lk_crop,        \* argument crop_type
    lk_pc,          \* "call" before the call, "returned" after it
    lk_result,      \* the returned record (meaningful when lk_pc = "returned")
    \* ---- Spec: the page
    artifact,       \* what trained_model.pkl holds on disk
    model_cache,    \* st.cache_resource entry of initialize_model
    load_calls,     \* executions of load_model so far in this process
    session,        \* st.session_state: a dict, keys in its DOMAIN
    widgets,        \* current sidebar values
    run,            \* what the latest script run did
    failed_before,  \* history: some earlier Predict click's inference raised
    \* ---- SpecEstimate: one direct call of the estimator
    est_input,      \* the five raw arguments
    est_pc,         \* "call" / "returned"
    est_result,     \* outcome of the call
    est_predict_calls,  \* invocations of model.predict during the call
    \* ---- SpecDisplay: one call of display_results
    dr_user,        \* prediction_result['yield']
    dr_hist,        \* historical_result['historical_yield']
    dr_pc,          \* "call" / "returned" / "raised"
    dr_out          \* the achievement level and action items shown

lookupVars == <<lk_state, lk_crop, lk_pc, lk_result>>
pageVars == <<artifact, model_cache, load_calls, session, widgets, run,
              failed_before>>
estVars == <<est_input, est_pc, est_result, est_predict_calls>>
displayVars == <<dr_user, dr_hist, dr_pc, dr_out>>
vars == <<lookupVars, pageVars, estVars, displayVars>>

(***************************************************************************)
(* Static tables                                                           *)
(***************************************************************************)

\* src/states_data.py INDIAN_STATES: name -> code
INDIAN_STATES ==
    [ s \in { "Andhra Pradesh", "Arunachal Pradesh", "Assam", "Bihar",
              "Chhattisgarh", "Goa", "Gujarat", "Haryana", "Himachal Pradesh",
              "Jharkhand", "Karnataka", "Kerala", "Madhya Pradesh",
              "Maharashtra", "Manipur", "Meghalaya", "Mizoram", "Nagaland",
              "Odisha", "Punjab", "Rajasthan", "Sikkim", "Tamil Nadu",
              "Telangana", "Tripura", "Uttar Pradesh", "Uttarakhand",
              "West Bengal", "Andaman and Nicobar Islands", "Chandigarh",
              "Dadra and Nagar Haveli and Daman and Diu", "Delhi",
              "Jammu and Kashmir", "Ladakh", "Lakshadweep", "Puducherry" }
      |-> CASE s = "Andhra Pradesh" -> "AP" [] s = "Arunachal Pradesh" -> "AR"
            [] s = "Assam" -> "AS" [] s = "Bihar" -> "BR"
            [] s = "Chhattisgarh" -> "CG" [] s = "Goa" -> "GA"
            [] s = "Gujarat" -> "GJ" [] s = "Haryana" -> "HR"
            [] s = "Himachal Pradesh" -> "HP" [] s = "Jharkhand" -> "JH"
            [] s = "Karnataka" -> "KA" [] s = "Kerala" -> "KL"
            [] s = "Madhya Pradesh" -> "MP" [] s = "Maharashtra" -> "MH"
            [] s = "Manipur" -> "MN" [] s = "Meghalaya" -> "ML"
            [] s = "Mizoram" -> "MZ" [] s = "Nagaland" -> "NL"
            [] s = "Odisha" -> "OR" [] s = "Punjab" -> "PB"
            [] s = "Rajasthan" -> "RJ" [] s = "Sikkim" -> "SK"
            [] s = "Tamil Nadu" -> "TN" [] s = "Telangana" -> "TG"
            [] s = "Tripura" -> "TR" [] s = "Uttar Pradesh" -> "UP"
            [] s = "Uttarakhand" -> "UK" [] s = "West Bengal" -> "WB"
            [] s = "Andaman and Nicobar Islands" -> "AN"
            [] s = "Chandigarh" -> "CH"
            [] s = "Dadra and Nagar Haveli and Daman and Diu" -> "DN"
            [] s = "Delhi" -> "DL" [] s = "Jammu and Kashmir" -> "JK"
            [] s = "Ladakh" -> "LA" [] s = "Lakshadweep" -> "LD"
            [] s = "Puducherry" -> "PY" ]

\* src/states_data.py CROP_TYPES (a list; the order is the selectbox order)
CROP_TYPES ==
    << "Rice", "Wheat", "Maize", "Cotton", "Sugarcane", "Soybean",
       "Groundnut", "Pulses", "Mustard", "Sunflower", "Barley", "Jowar",
       "Bajra", "Ragi", "Turmeric", "Chili", "Onion", "Potato", "Tomato",
       "Banana" >>

\* list(INDIAN_STATES.keys()): the options of the state selectbox
StateOptions == DOMAIN INDIAN_STATES

\* the options of the crop selectbox
CropOptions == { CROP_TYPES[i] : i \in DOMAIN CROP_TYPES }

\* get_historical_prediction: historical_data, state -> crop -> kg/ha
historical_data ==
    ( "Punjab" :> ("Rice" :> 4200 @@ "Wheat" :> 4800 @@ "Maize" :> 3800
                   @@ "Cotton" :> 1800) )
 @@ ( "Haryana" :> ("Rice" :> 3900 @@ "Wheat" :> 4600 @@ "Maize" :> 3600
                    @@ "Cotton" :> 1700) )
 @@ ( "Uttar Pradesh" :> ("Rice" :> 2400 @@ "Wheat" :> 3200
                          @@ "Sugarcane" :> 68000 @@ "Potato" :> 22000) )
 @@ ( "Maharashtra" :> ("Cotton" :> 1200 @@ "Sugarcane" :> 78000
                        @@ "Soybean" :> 1800 @@ "Rice" :> 2800) )
 @@ ( "Karnataka" :> ("Rice" :> 3200 @@ "Cotton" :> 1400
                      @@ "Sugarcane" :> 82000 @@ "Maize" :> 4500) )
 @@ ( "Tamil Nadu" :> ("Rice" :> 3600 @@ "Cotton" :> 1600
                       @@ "Sugarcane" :> 98000 @@ "Groundnut" :> 1900) )
 @@ ( "Gujarat" :> ("Cotton" :> 1500 @@ "Groundnut" :> 2100
                    @@ "Wheat" :> 3400 @@ "Rice" :> 2600) )
 @@ ( "West Bengal" :> ("Rice" :> 3400 @@ "Wheat" :> 3000
                        @@ "Potato" :> 24000 @@ "Jute" :> 2200) )
 @@ ( "Rajasthan" :> ("Wheat" :> 3800 @@ "Mustard" :> 1200
                      @@ "Barley" :> 2800 @@ "Cotton" :> 900) )

\* bug variant: a default table that also lists Mustard, at 1200
default_yields_with_mustard ==
    "Rice" :> 3000 @@ "Wheat" :> 3200 @@ "Maize" :> 4000 @@ "Cotton" :> 1200
 @@ "Sugarcane" :> 70000 @@ "Soybean" :> 1800 @@ "Groundnut" :> 1700
 @@ "Pulses" :> 1200 @@ "Mustard" :> 1200

\* get_historical_prediction: default_yields, crop -> kg/ha
default_yields ==
    "Rice" :> 3000 @@ "Wheat" :> 3200 @@ "Maize" :> 4000 @@ "Cotton" :> 1200
 @@ "Sugarcane" :> 70000 @@ "Soybean" :> 1800 @@ "Groundnut" :> 1700
 @@ "Pulses" :> 1200

\* the last-resort yield of default_yields.get(crop_type, 2500)
GlobalDefaultYield == 2500

\* reliability when the state has a historical table (85.0)
ReliabilityHigh == 85

\* reliability otherwise (70.0)
ReliabilityLow == 70

\* the {} that historical_data.get(state, {}) falls back to
EmptyDict == <<>>

(***************************************************************************)
(* Python dict helpers                                                     *)
(***************************************************************************)

\* d[k]: raises KeyError on an absent key (what .get is not)
IndexRaises(d, k) == k \notin DOMAIN d

\* d.get(k, default) raises for no key
GetRaises(d, k) == FALSE

\* d.get(k, default)
DictGet(d, k, default) ==
    IF k \in DOMAIN d THEN d[k] ELSE default

\* k in d
DictHas(d, k) == k \in DOMAIN d

(***************************************************************************)
(* get_historical_prediction (src/app.py 56-103)                           *)
(***************************************************************************)

\* bug variant: the text leaves the state out
DataSourceCropOnly(state, crop_type) ==
    << "Average yield data for ", crop_type >>

\* f'Average yield data for {crop_type} in {state}', as its pieces in order
DataSource(state, crop_type) ==
    << "Average yield data for ", crop_type, " in ", state >>

\* bug variant: the crop-level default is consulted before the state table
HistoricalYieldDefaultFirst(state, crop_type) ==
    LET state_data == DictGet(historical_data, state, EmptyDict)
    IN  DictGet(default_yields, crop_type,
                DictGet(state_data, crop_type, GlobalDefaultYield))

\* lines 96-97: state_data.get(crop_type, default_yields.get(crop_type, 2500))
HistoricalYield(state, crop_type) ==
    LET state_data == DictGet(historical_data, state, EmptyDict)
    IN  DictGet(state_data, crop_type,
                DictGet(default_yields, crop_type, GlobalDefaultYield))

\* line 102: 85.0 if state in historical_data else 70.0
Reliability(state, crop_type) ==
    IF DictHas(historical_data, state) THEN ReliabilityHigh ELSE ReliabilityLow

\* lines 96-97: whether one of the three dictionary reads raises
HistoricalLookupRaises(state, crop_type) ==
    \/ GetRaises(historical_data, state)
    \/ GetRaises(DictGet(historical_data, state, EmptyDict), crop_type)
    \/ GetRaises(default_yields, crop_type)

\* lines 99-103: the returned dict
get_historical_prediction(state, crop_type) ==
    [ historical_yield |-> HistoricalYield(state, crop_type),
      data_source |-> DataSource(state, crop_type),
      reliability |-> Reliability(state, crop_type) ]

(***************************************************************************)
(* The model artifact and its cache (src/utils/model.py, src/app.py 40-43) *)
(***************************************************************************)

\* what trained_model.pkl can hold: a model, nothing (no file), bytes that do
\* not unpickle, or a pickled None
ArtifactStates == {"present", "absent", "corrupt", "pickled_none"}

\* load_model: open() raises on a missing file, pickle.load on a corrupt one;
\* otherwise the unpickled object is returned as it is
load_model(file) ==
    CASE file = "present"      -> [raised |-> FALSE, value |-> "Model"]
      [] file = "pickled_none" -> [raised |-> FALSE, value |-> "None"]
      [] file = "absent"       -> [raised |-> TRUE, value |-> "FileNotFoundError"]
      [] file = "corrupt"      -> [raised |-> TRUE, value |-> "UnpicklingError"]

\* the empty st.cache_resource entry
EmptyCache == [cached |-> FALSE, value |-> "NoModel"]

\* @st.cache_resource initialize_model: a cached value is returned without
\* running load_model; a value is cached when load_model returns, and nothing
\* is cached when it raises
initialize_model(cache, file) ==
    IF cache.cached
    THEN [raised |-> FALSE, value |-> cache.value, loads |-> 0, cache |-> cache]
    ELSE LET r == load_model(file)
         IN  [raised |-> r.raised, value |-> r.value, loads |-> 1,
              cache |-> IF r.raised THEN cache
                        ELSE [cached |-> TRUE, value |-> r.value]]

(***************************************************************************)
(* The estimator (src/app.py 45-54, src/utils/model.py 11-14)              *)
(***************************************************************************)

\* preprocess_inputs: the five arguments packed into a dict, unchanged
preprocess_inputs(state, rainfall, temperature, soil_ph, crop_type) ==
    [ state |-> state, rainfall |-> rainfall, temperature |-> temperature,
      soil_ph |-> soil_ph, crop_type |-> crop_type ]

\* yields the opaque model may answer with (kg/ha), one of them negative
SampleYields == {-100, 5000}

\* (yield, confidence) pairs of a model that answers with a mapping
SampleRecords == { <<5000, 90>>, <<-100, 150>> }

\* what model.predict(...)[0] can be: the call raises, or its first element is
\* None, a bare number, or a mapping with the keys display_results reads
PredictOutcomes ==
    { [kind |-> "raise"], [kind |-> "none"] }
    \cup { [kind |-> "number", value |-> n] : n \in SampleYields }
    \cup { [kind |-> "record", yield |-> r[1], confidence |-> r[2]]
           : r \in SampleRecords }

\* bug variant of predict_yield: a failed predict call is tried once more
predict_yield_retry(model, input_data, outcome) ==
    [ calls |-> IF outcome.kind = "raise" THEN 2 ELSE 1,
      raised |-> outcome.kind = "raise",
      value |-> outcome ]

\* predict_yield: one model.predict call on the reshaped input, its element 0
\* returned as it is; an exception of predict propagates
predict_yield(model, input_data, outcome) ==
    [ calls |-> 1,
      raised |-> outcome.kind = "raise",
      value |-> outcome ]

(***************************************************************************)
(* One script run of main() (src/app.py 105-197)                           *)
(***************************************************************************)

\* the sidebar's default values: first option of each selectbox, value= of
\* each slider
DefaultWidgets ==
    [ state |-> "Andhra Pradesh", rainfall |-> 800, temperature |-> 25,
      soil_ph |-> 65, crop_type |-> "Rice" ]

\* slider and selectbox positions the user moves to in the page model
SampleStates == {"Punjab", "Ladakh"}
SampleCrops == {"Wheat", "Mustard"}
SampleRainfall == {200, 3000}

WidgetChoices ==
    { [ state |-> s, rainfall |-> r, temperature |-> 25, soil_ph |-> 65,
        crop_type |-> c ]
      : s \in SampleStates, r \in SampleRainfall, c \in SampleCrops }

\* no script run yet
NotRun ==
    [ outcome |-> "not_run", error |-> "", sidebar |-> FALSE, button |-> FALSE,
      predict_calls |-> 0, predicted |-> [kind |-> "not_called"],
      displayed |-> FALSE ]

\* display_results lines 206-208 subscript prediction_result; a bare number
\* (what predict_yield returns for a regression model) cannot be subscripted
DisplayRaises(prediction_result) == prediction_result.kind # "record"

\* bug variant: only the prediction is written, the other keys keep old values
StoreResultsPredictionOnly(sess, prediction_result, historical_result, inputs) ==
    ( "prediction_result" :> prediction_result ) @@ sess

\* lines 187-189: the three keys written together
StoreResults(sess, prediction_result, historical_result, inputs) ==
    ( "prediction_result" :> prediction_result
      @@ "historical_result" :> historical_result
      @@ "inputs" :> inputs ) @@ sess

\* bug variant: the None test of line 182 is missing
PredictionFailedNever(prediction_result) == FALSE

\* line 182: prediction_result is None
PredictionFailed(prediction_result) == prediction_result.kind = "none"

\* lines 191-197: the tail of main() once the click, if any, is handled
DisplayStep(sess, button, calls, predicted) ==
    IF "prediction_result" \in DOMAIN sess
    THEN IF DisplayRaises(sess["prediction_result"])
         THEN [ outcome |-> "exception", error |-> "display_results raised",
                sidebar |-> TRUE, button |-> button, predict_calls |-> calls,
                predicted |-> predicted, displayed |-> FALSE ]
         ELSE [ outcome |-> "displayed", error |-> "", sidebar |-> TRUE,
                button |-> button, predict_calls |-> calls,
                predicted |-> predicted, displayed |-> TRUE ]
    ELSE [ outcome |-> "idle", error |-> "", sidebar |-> TRUE,
           button |-> button, predict_calls |-> calls,
           predicted |-> predicted, displayed |-> FALSE ]

\* main(): one whole script run with the sidebar at w, the Predict button
\* pressed or not, and `outcome` what the model answers if it is asked
ScriptRun(w, button, outcome) ==
    LET m == initialize_model(model_cache, artifact)
        inputs == preprocess_inputs(w.state, w.rainfall, w.temperature,
                                    w.soil_ph, w.crop_type)
        p == predict_yield(m.value, inputs, outcome)
        historical_result == get_historical_prediction(w.state, w.crop_type)
        noCall == [kind |-> "not_called"]
    IN  /\ model_cache' = m.cache
        /\ load_calls' = load_calls + m.loads
        /\ widgets' = w
        /\ UNCHANGED artifact
        /\ IF m.raised
           THEN \* line 114 raises: the run ends with the exception
                /\ run' = [ outcome |-> "exception", error |-> m.value,
                            sidebar |-> FALSE, button |-> FALSE,
                            predict_calls |-> 0, predicted |-> noCall,
                            displayed |-> FALSE ]
                /\ UNCHANGED <<session, failed_before>>
           ELSE IF m.value = "None"
           THEN \* lines 116-118
                /\ run' = [ outcome |-> "reported_error",
                            error |-> "Failed to load the prediction model",
                            sidebar |-> FALSE, button |-> FALSE,
                            predict_calls |-> 0, predicted |-> noCall,
                            displayed |-> FALSE ]
                /\ UNCHANGED <<session, failed_before>>
           ELSE IF ~button
           THEN /\ run' = DisplayStep(session, FALSE, 0, noCall)
                /\ UNCHANGED <<session, failed_before>>
           ELSE IF p.raised
           THEN \* line 179 raises: nothing below it runs
                /\ run' = [ outcome |-> "exception", error |-> "predict raised",
                            sidebar |-> TRUE, button |-> TRUE,
                            predict_calls |-> p.calls, predicted |-> p.value,
                            displayed |-> FALSE ]
                /\ failed_before' = TRUE
                /\ UNCHANGED session
           ELSE IF PredictionFailed(p.value)
           THEN \* lines 182-184
                /\ run' = [ outcome |-> "reported_error",
                            error |-> "Failed to generate prediction",
                            sidebar |-> TRUE, button |-> TRUE,
                            predict_calls |-> p.calls, predicted |-> p.value,
                            displayed |-> FALSE ]
                /\ UNCHANGED <<session, failed_before>>
           ELSE \* lines 187-197
                /\ session' = StoreResults(session, p.value, historical_result,
                                           inputs)
                /\ run' = DisplayStep(session', TRUE, p.calls, p.value)
                /\ UNCHANGED failed_before

\* loads the model cache can still attempt in the explored runs
MaxLoadCalls == 3

\* a run can start: it either needs no load or the explored loads are not spent
CanRun == model_cache.cached \/ load_calls < MaxLoadCalls

\* the page is opened or rerun with nothing touched
RunRerun ==
    /\ CanRun
    /\ ScriptRun(widgets, FALSE, [kind |-> "not_called"])
    /\ UNCHANGED <<lookupVars, estVars, displayVars>>

\* the user moves a sidebar widget: the script reruns with the new values
RunWidgetChange ==
    /\ CanRun
    /\ run.sidebar
    /\ \E w \in WidgetChoices :
          /\ w # widgets
          /\ ScriptRun(w, FALSE, [kind |-> "not_called"])
    /\ UNCHANGED <<lookupVars, estVars, displayVars>>

\* the user presses Predict: the script reruns with the button True
RunPredictClick ==
    /\ CanRun
    /\ run.sidebar
    /\ \E o \in PredictOutcomes : ScriptRun(widgets, TRUE, o)
    /\ UNCHANGED <<lookupVars, estVars, displayVars>>

\* the file on disk is replaced, removed or restored between runs
ArtifactChange ==
    /\ \E a \in ArtifactStates : a # artifact /\ artifact' = a
    /\ UNCHANGED <<model_cache, load_calls, session, widgets, run,
                   failed_before, lookupVars, estVars, displayVars>>

(***************************************************************************)
(* display_results: achievement level and action items                     *)
(* (src/app.py 220-242, 507-515)                                           *)
(***************************************************************************)

\* line 221: the division user_yield / historical_yield is evaluated only
\* when historical_yield > 0
RatioDivides(historical_yield) == historical_yield > 0

\* bug variant: the comparison with the threshold is not strict
RatioAtLeast(user_yield, historical_yield, tenths) ==
    IF RatioDivides(historical_yield)
    THEN 10 * user_yield >= tenths * historical_yield
    ELSE 10 >= tenths

\* yield_ratio > tenths/10, with yield_ratio of line 221: the quotient when
\* historical_yield > 0 (cross-multiplied, the divisor being positive), else 1
RatioExceeds(user_yield, historical_yield, tenths) ==
    IF RatioDivides(historical_yield)
    THEN 10 * user_yield > tenths * historical_yield
    ELSE 10 > tenths

\* lines 223-242: the if/elif chain that picks the achievement text
Achievement(user_yield, historical_yield) ==
    IF RatioExceeds(user_yield, historical_yield, 12)
    THEN "Outstanding Performance"
    ELSE IF RatioExceeds(user_yield, historical_yield, 10)
    THEN "Above Average"
    ELSE IF RatioExceeds(user_yield, historical_yield, 8)
    THEN "Room for Growth"
    ELSE "Learning Journey"

\* lines 510-515: the first two action items
ActionItems(user_yield, historical_yield) ==
    IF user_yield > historical_yield
    THEN << "Your conditions are great! Focus on maintaining current practices",
            "Consider expanding cultivation area for increased profits" >>
    ELSE << "Monitor water supply and plan irrigation carefully",
            "Consider soil health improvement measures" >>

\* display variables at rest (the other specifications do not move them)
DisplayIdle ==
    /\ dr_user = 0
    /\ dr_hist = 0
    /\ dr_pc = "idle"
    /\ dr_out = [achievement |-> "", action_items |-> <<>>, divided |-> FALSE]

(***************************************************************************)
(* SpecLookup: the lookup applied to every pair, known or not              *)
(***************************************************************************)

\* a state name that no table holds
UnknownState == "Atlantis"

\* a crop name that no table holds
UnknownCrop == "Quinoa"

\* every state option, and a name in no table
LookupStates == StateOptions \cup {UnknownState}

\* every crop option, the crop only historical_data knows, a name in no table
LookupCrops == CropOptions \cup {"Jute", UnknownCrop}

\* placeholder held before the call returns
NoHistorical == [historical_yield |-> 0, data_source |-> <<>>, reliability |-> 0]

\* page and estimator variables at rest (SpecLookup does not move them)
PageIdle ==
    /\ artifact = "present"
    /\ model_cache = EmptyCache
    /\ load_calls = 0
    /\ session = <<>>
    /\ widgets = DefaultWidgets
    /\ run = NotRun
    /\ failed_before = FALSE

EstIdle ==
    /\ est_input = DefaultWidgets
    /\ est_pc = "idle"
    /\ est_result = [kind |-> "none"]
    /\ est_predict_calls = 0

\* lookup variables at rest (Spec and SpecEstimate do not move them)
LookupIdle ==
    /\ lk_state = "Andhra Pradesh"
    /\ lk_crop = "Rice"
    /\ lk_pc = "idle"
    /\ lk_result = NoHistorical

InitLookup ==
    /\ lk_state \in LookupStates
    /\ lk_crop \in LookupCrops
    /\ lk_pc = "call"
    /\ lk_result = NoHistorical
    /\ PageIdle
    /\ EstIdle
    /\ DisplayIdle

\* one call of get_historical_prediction(lk_state, lk_crop)
Lookup ==
    /\ lk_pc = "call"
    /\ IF HistoricalLookupRaises(lk_state, lk_crop)
       THEN /\ lk_pc' = "raised"
            /\ lk_result' = lk_result
       ELSE /\ lk_pc' = "returned"
            /\ lk_result' = get_historical_prediction(lk_state, lk_crop)
    /\ UNCHANGED <<lk_state, lk_crop, pageVars, estVars, displayVars>>

NextLookup == Lookup

SpecLookup == InitLookup /\ [][NextLookup]_vars

(***************************************************************************)
(* SpecEstimate: the estimator called directly, on any input               *)
(***************************************************************************)

\* raw arguments tried: the domain extremes, values just outside them, an
\* unknown state and an unknown crop
EstStates == {"Punjab", UnknownState}
EstCrops == {"Wheat", UnknownCrop}
EstRainfall == {150, 200, 3000, 3050}
EstTemperature == {14, 25, 41}
EstSoilPh == {39, 65, 91}

EstInputs ==
    { [ state |-> s, rainfall |-> r, temperature |-> t, soil_ph |-> ph,
        crop_type |-> c ]
      : s \in EstStates, r \in EstRainfall, t \in EstTemperature,
        ph \in EstSoilPh, c \in EstCrops }

\* the declared domains: the selectbox options and the slider ranges of
\* main() (soil pH 4.0..9.0 as tenths)
ValidInput(i) ==
    /\ i.state \in StateOptions
    /\ i.rainfall \in 200..3000
    /\ i.temperature \in 15..40
    /\ i.soil_ph \in 40..90
    /\ i.crop_type \in CropOptions

InitEstimate ==
    /\ est_input \in EstInputs
    /\ est_pc = "call"
    /\ est_result = [kind |-> "none"]
    /\ est_predict_calls = 0
    /\ LookupIdle
    /\ PageIdle
    /\ DisplayIdle

\* lines 174-179 of main() as a function of the raw arguments:
\* predict_yield(model, preprocess_inputs(...)), with no check in between
Estimate ==
    /\ est_pc = "call"
    /\ \E o \in PredictOutcomes :
          LET inputs == preprocess_inputs(est_input.state, est_input.rainfall,
                                          est_input.temperature,
                                          est_input.soil_ph,
                                          est_input.crop_type)
              p == predict_yield("Model", inputs, o)
          IN  /\ est_predict_calls' = p.calls
              /\ est_result' = [ input |-> inputs, answer |-> p.value ]
    /\ est_pc' = "returned"
    /\ UNCHANGED <<est_input, lookupVars, pageVars, displayVars>>

NextEstimate == Estimate

SpecEstimate == InitEstimate /\ [][NextEstimate]_vars

(***************************************************************************)
(* SpecDisplay: display_results on any pair of yields                      *)
(***************************************************************************)

\* largest predicted yield tried, in hundreds of kg/ha
MaxUserHundreds == 15

\* predicted yields tried: a negative one, zero, and every hundred up to the
\* maximum, so that the ratios 0.8, 1.0 and 1.2 are met exactly
DisplayUserYields == { 100 * k : k \in -2..MaxUserHundreds }

\* historical yields tried: not positive, and positive
DisplayHistoricalYields == {-500, 0, 500, 1000}

InitDisplay ==
    /\ dr_user \in DisplayUserYields
    /\ dr_hist \in DisplayHistoricalYields
    /\ dr_pc = "call"
    /\ dr_out = [achievement |-> "", action_items |-> <<>>, divided |-> FALSE]
    /\ LookupIdle
    /\ PageIdle
    /\ EstIdle

\* display_results, as far as the level and the action items go
DisplayResults ==
    /\ dr_pc = "call"
    /\ dr_pc' = "returned"
    /\ dr_out' = [ achievement |-> Achievement(dr_user, dr_hist),
                   action_items |-> ActionItems(dr_user, dr_hist),
                   divided |-> RatioDivides(dr_hist) ]
    /\ UNCHANGED <<dr_user, dr_hist, lookupVars, pageVars, estVars>>

NextDisplay == DisplayResults

SpecDisplay == InitDisplay /\ [][NextDisplay]_vars

(***************************************************************************)
(* Spec: the page                                                          *)
(***************************************************************************)

Init ==
    /\ artifact \in ArtifactStates
    /\ model_cache = EmptyCache
    /\ load_calls = 0
    /\ session = <<>>
    /\ widgets = DefaultWidgets
    /\ run = NotRun
    /\ failed_before = FALSE
    /\ LookupIdle
    /\ EstIdle
    /\ DisplayIdle

Next ==
    \/ RunRerun
    \/ RunWidgetChange
    \/ RunPredictClick
    \/ ArtifactChange

Spec == Init /\ [][Next]_vars

(***************************************************************************)
(* Claims about the historical lookup (checked under SpecLookup)           *)
(***************************************************************************)

\* historical_data holds an entry for this state AND this crop
ExactEntry(state, crop_type) ==
    /\ state \in DOMAIN historical_data
    /\ crop_type \in DOMAIN historical_data[state]

\* the text names the given word
Mentions(text, word) == \E i \in DOMAIN text : text[i] = word

\* C1: the returned historical_yield is historical_data[state][crop] when that
\* entry exists, otherwise default_yields[crop] when the crop has a default,
\* otherwise the global default 2500; a later link of the chain is never used
\* while an earlier one applies.
C1_FallbackOrder ==
    lk_pc = "returned" =>
        LET y == lk_result.historical_yield
        IN  IF ExactEntry(lk_state, lk_crop)
            THEN y = historical_data[lk_state][lk_crop]
            ELSE IF lk_crop \in DOMAIN default_yields
                 THEN y = default_yields[lk_crop]
                 ELSE y = 2500

\* C1 witness: an exact entry won over a crop default with another value
C1_Witness ==
    /\ lk_pc = "returned"
    /\ ExactEntry(lk_state, lk_crop)
    /\ lk_crop \in DOMAIN default_yields
    /\ default_yields[lk_crop] # historical_data[lk_state][lk_crop]
    /\ lk_result.historical_yield = historical_data[lk_state][lk_crop]

\* C2: the lookup is total: for every pair of INDIAN_STATES x CROP_TYPES and
\* for names in no table, the call never raises and returns a record with a
\* numeric historical_yield, a data_source text and a reliability value.
C2_LookupTotal ==
    /\ lk_pc # "raised"
    /\ lk_pc = "returned" =>
          /\ DOMAIN lk_result = {"historical_yield", "data_source", "reliability"}
          /\ lk_result.historical_yield \in Nat
          /\ Len(lk_result.data_source) > 0
          /\ lk_result.reliability \in {ReliabilityLow, ReliabilityHigh}

\* C2 witness: a state and a crop that appear in no table got a result
C2_Witness ==
    /\ lk_pc = "returned"
    /\ lk_state = UnknownState
    /\ lk_crop = UnknownCrop
    /\ lk_result.historical_yield = GlobalDefaultYield

\* C3 as stated: Ladakh + Mustard falls back to the crop-level default 1200
\* with reliability 70.
C3_Original ==
    (lk_pc = "returned" /\ lk_state = "Ladakh" /\ lk_crop = "Mustard") =>
        /\ lk_result.historical_yield = 1200
        /\ lk_result.reliability = 70

\* C3 amended: Mustard has no crop-level default, so Ladakh + Mustard falls
\* back to the global default 2500, with reliability 70.
C3_LadakhMustard ==
    (lk_pc = "returned" /\ lk_state = "Ladakh" /\ lk_crop = "Mustard") =>
        /\ "Ladakh" \notin DOMAIN historical_data
        /\ "Mustard" \notin DOMAIN default_yields
        /\ lk_result.historical_yield = 2500
        /\ lk_result.reliability = 70

\* C3 witness: the Ladakh + Mustard call returned
C3_Witness ==
    /\ lk_pc = "returned"
    /\ lk_state = "Ladakh"
    /\ lk_crop = "Mustard"

\* C4: reliability is 85 exactly when historical_data has an entry for the
\* state AND the crop, and 70 for every pair whose yield came from a
\* crop-level or global default.
C4_ReliabilityExact ==
    lk_pc = "returned" =>
        IF ExactEntry(lk_state, lk_crop)
        THEN lk_result.reliability = 85
        ELSE lk_result.reliability = 70

\* C5: Punjab + Wheat gives historical_yield 4800, reliability 85 and a source
\* description that contains both "Wheat" and "Punjab".
C5_PunjabWheat ==
    (lk_pc = "returned" /\ lk_state = "Punjab" /\ lk_crop = "Wheat") =>
        /\ lk_result.historical_yield = 4800
        /\ lk_result.reliability = 85
        /\ Mentions(lk_result.data_source, "Wheat")
        /\ Mentions(lk_result.data_source, "Punjab")

\* C5 witness: the Punjab + Wheat call returned its record
C5_Witness ==
    /\ lk_pc = "returned"
    /\ lk_state = "Punjab"
    /\ lk_crop = "Wheat"
    /\ lk_result.historical_yield > 0

(***************************************************************************)
(* Claims about the page (checked under Spec)                              *)
(***************************************************************************)

\* the three keys main() stores
ResultKeys == {"prediction_result", "historical_result", "inputs"}

\* this step is a script run in which load_model ran and could not load
LoadFails ==
    /\ load_calls' = load_calls + 1
    /\ artifact \in {"absent", "corrupt"}

\* C6: when the artifact cannot be loaded (file absent or corrupt) the run
\* ends in the reported-error state, not with an unhandled exception, and no
\* result is stored in the session or displayed in that run.
C6_LoadFailureReported ==
    [][ LoadFails =>
          /\ run'.outcome = "reported_error"
          /\ ~run'.displayed
          /\ session' = session ]_vars

\* C7: a Predict click invokes model.predict exactly once (no retry); when the
\* call raises, the exception ends that run with the session and the cached
\* model untouched; and after an earlier failure a click whose inference
\* succeeds still stores its result under the three keys.
C7_InferenceFailureTerminal ==
    [][ run'.button =>
          /\ run'.predict_calls = 1
          /\ run'.predicted.kind = "raise" =>
                /\ run'.outcome = "exception"
                /\ run'.error = "predict raised"
                /\ session' = session
                /\ model_cache' = model_cache
          /\ (failed_before /\ run'.predicted.kind \in {"number", "record"}) =>
                /\ DOMAIN session' = ResultKeys
                /\ session'["prediction_result"] = run'.predicted ]_vars

\* C7 witness: after an inference failure, a later click succeeded and its
\* result is in the session
C7_Witness ==
    /\ failed_before
    /\ run.button
    /\ run.predict_calls = 1
    /\ run.predicted.kind = "number"
    /\ DOMAIN session = ResultKeys
    /\ session["prediction_result"] = run.predicted

\* C8: over any sequence of runs, with or without load failures, load_model
\* is executed at most once.
C8_LoadedOnce == load_calls <= 1

\* C9: the estimate delivered for a valid input has yield >= 0 and a
\* confidence in [0,100], whatever number the model's predict returns.
C9_EstimateInRange ==
    "prediction_result" \in DOMAIN session =>
        LET pr == session["prediction_result"]
        IN  /\ ValidInput(session["inputs"])
            /\ IF pr.kind = "number" THEN pr.value >= 0 ELSE pr.yield >= 0
            /\ pr.kind = "record"
            /\ pr.confidence \in 0..100

(***************************************************************************)
(* Claims about the estimator (checked under SpecEstimate)                 *)
(***************************************************************************)

\* C10: an input with any field outside its declared domain is rejected with
\* InvalidInput, model.predict is never invoked on it and it is not passed
\* through; the extremes rainfall = 200 and rainfall = 3000 are accepted.
C10_InvalidRejected ==
    est_pc = "returned" =>
        IF ValidInput(est_input)
        THEN est_result.answer.kind # "InvalidInput"
        ELSE /\ est_predict_calls = 0
             /\ est_result.answer.kind = "InvalidInput"

(***************************************************************************)
(* Claims about the session state (checked under Spec)                     *)
(***************************************************************************)

\* C12: the three session keys are all absent or all present; the stored
\* historical_result is get_historical_prediction of the stored inputs; the
\* session changes only in a Predict click, which stores that run's sidebar
\* values and that run's prediction together; runs without a click (sidebar
\* changes included) leave the stored triple as it is.
C12_SessionConsistent ==
    [][ /\ DOMAIN session' \in {{}, ResultKeys}
        /\ DOMAIN session' = ResultKeys =>
              session'["historical_result"] =
                  get_historical_prediction(session'["inputs"].state,
                                            session'["inputs"].crop_type)
        /\ session' # session =>
              /\ run'.button
              /\ run'.predict_calls = 1
              /\ session'["inputs"] =
                    preprocess_inputs(widgets'.state, widgets'.rainfall,
                                      widgets'.temperature, widgets'.soil_ph,
                                      widgets'.crop_type)
              /\ session'["prediction_result"] = run'.predicted
        /\ ~run'.button => session' = session ]_vars

\* C12 witness: after a stored click the sidebar was moved without clicking;
\* the stored triple still belongs to the old inputs
C12_Witness ==
    /\ DOMAIN session = ResultKeys
    /\ ~run.button
    /\ widgets # session["inputs"]
    /\ session["historical_result"] #
          get_historical_prediction(widgets.state, widgets.crop_type)
    /\ session["historical_result"] =
          get_historical_prediction(session["inputs"].state,
                                    session["inputs"].crop_type)

GreatItemsShown ==
    dr_out.action_items[1] =
        "Your conditions are great! Focus on maintaining current practices"

\* C14: for a positive historical yield exactly one of the four levels is
\* picked, by the strict thresholds 1.2, 1.0 and 0.8 on user/historical, and
\* the "great / expand" items are shown exactly when the level is Outstanding
\* or Above Average (the "monitor / soil" items otherwise); for a historical
\* yield that is not positive the ratio is 1 and nothing is divided.
C14_LevelMatchesItems ==
    dr_pc = "returned" =>
        LET level == dr_out.achievement
            u == dr_user
            h == dr_hist
        IN  /\ level \in { "Outstanding Performance", "Above Average",
                           "Room for Growth", "Learning Journey" }
            /\ h > 0 =>
                  /\ dr_out.divided
                  /\ level = "Outstanding Performance" <=> 10 * u > 12 * h
                  /\ level = "Above Average" <=>
                        (10 * u > 10 * h /\ 10 * u <= 12 * h)
                  /\ level = "Room for Growth" <=>
                        (10 * u > 8 * h /\ 10 * u <= 10 * h)
                  /\ level = "Learning Journey" <=> 10 * u <= 8 * h
                  /\ GreatItemsShown <=>
                        level \in {"Outstanding Performance", "Above Average"}
                  /\ Len(dr_out.action_items) = 2
            /\ h <= 0 =>
                  /\ ~dr_out.divided
                  /\ level = "Room for Growth"

\* C14 witness: the ratio is exactly 1.0 with a positive historical yield:
\* Room for Growth, with the "monitor / soil" items
C14_Witness ==
    /\ dr_pc = "returned"
    /\ dr_hist > 0
    /\ dr_user = dr_hist
    /\ dr_out.achievement = "Room for Growth"
    /\ ~GreatItemsShown

====
